---- MODULE Spec2Model ----
(***************************************************************************)
(* A model of glot: the OpenAI translation adapter (cache, concurrency     *)
(* limit, placeholder check), the tree utilities of the sync CLI           *)
(* (flatten, setAtPath, getAtPath, deleteAtPath, diffKeys) and a run of    *)
(* the CLI: main, syncLanguage and translateWholeFile, one step per loop   *)
(* iteration and per await, the answers of the user drawn by the steps.    *)
(* Trees are values: an object that the code copies by reference from one  *)
(* tree into the other is a copy in the model.                             *)
(*                                                                         *)
(* Strings are sequences of one-character strings, so that trimming,       *)
(* substring search, the placeholder regular expression, joining with "."  *)
(* and splitting on "." are computed character by character.               *)
(***************************************************************************)
EXTENDS Integers, Sequences, FiniteSets, TLC

\* ------------------------------------------------------------------------
\* Bounds of the model
\* ------------------------------------------------------------------------

\* number of translateString calls issued in one behaviour
NCalls == 3

\* largest value of the --concurrency option that is tried
MaxConcurrency == 2

\* longest source text / remote response drawn in the single-call
\* specification SpecText
MaxTextLen == 3

MaxRespLen == 3

\* largest number of nodes (below the roots) of the trees that are drawn
MaxNodes == 3

\* largest number of nodes of the two trees of a file in a run of the CLI
MaxFileNodes == 2

\* ------------------------------------------------------------------------
\* Strings
\* ------------------------------------------------------------------------

RECURSIVE StringsUpTo(_, _)
\* all strings over the alphabet of length at most n
StringsUpTo(alphabet, n) ==
  IF n = 0 THEN {<<>>}
  ELSE LET shorter == StringsUpTo(alphabet, n - 1)
       IN  shorter \cup {Append(s, ch) : s \in shorter, ch \in alphabet}

IsSpace(ch) == ch \in {" ", "\t", "\n"}

RECURSIVE trimStart(_)
trimStart(s) ==
  IF s # <<>> /\ IsSpace(Head(s)) THEN trimStart(Tail(s)) ELSE s

RECURSIVE trimEnd(_)
trimEnd(s) ==
  IF s # <<>> /\ IsSpace(s[Len(s)]) THEN trimEnd(SubSeq(s, 1, Len(s) - 1)) ELSE s

\* String.prototype.trim
trim(s) == trimEnd(trimStart(s))

\* String.prototype.includes
includes(s, sub) ==
  \E i \in 0..(Len(s) - Len(sub)) : SubSeq(s, i + 1, i + Len(sub)) = sub

IsBrace(ch) == ch \in {"{", "}"}

\* index of the first brace of s at or after position i, 0 when there is none
RECURSIVE nextBrace(_, _)
nextBrace(s, i) ==
  IF i > Len(s) THEN 0
  ELSE IF IsBrace(s[i]) THEN i
  ELSE nextBrace(s, i + 1)

\* s.match(/\{[^{}]+\}/g): the leftmost non-overlapping matches, scanning
\* from position i.  A match starts at a "{" that is followed by one or
\* more non-brace characters and then a "}".
RECURSIVE matchAll(_, _)
matchAll(s, i) ==
  IF i > Len(s) THEN <<>>
  ELSE IF s[i] = "{"
    THEN LET j == nextBrace(s, i + 1)
         IN  IF j >= i + 2 /\ s[j] = "}"
               THEN <<SubSeq(s, i, j)>> \o matchAll(s, j + 1)
               ELSE matchAll(s, i + 1)
    ELSE matchAll(s, i + 1)

\* dedupe of ../helpers: duplicates collapsed, first occurrences kept
RECURSIVE dedupe(_)
dedupe(xs) ==
  IF xs = <<>> THEN <<>>
  ELSE LET front == dedupe(SubSeq(xs, 1, Len(xs) - 1))
           last == xs[Len(xs)]
       IN  IF \E i \in 1..Len(front) : front[i] = last
             THEN front
             ELSE Append(front, last)

placeholders(s) == dedupe(matchAll(s, 1))

\* placeholders(text).filter((ph) => !out.includes(ph))
lost(text, out) ==
  SelectSeq(placeholders(text), LAMBDA ph : ~includes(out, ph))

\* ------------------------------------------------------------------------
\* OpenAITranslator: state
\* ------------------------------------------------------------------------

VARIABLES
  concurrency,  \* this.concurrency
  cache,        \* this.cache: Map<string, string>
  running,      \* this.running
  queue,        \* this.queue: the resolvers of the suspended acquire() calls
  pc,           \* per call: where the async function translateString is
  req,          \* per call: its arguments (text, fromLang, toLang)
  result,       \* per call: {} or {the value the promise resolved with}
  outcome,      \* per call: what the remote call did ("none", "ok", "fail")
  answer,       \* per call: {} or {the content the remote call resolved with}
  tokens,       \* per call: how many tokens acquire()/release() gave it
  released,     \* per call: how many times it ran release()
  enqueued,     \* the calls in the order acquire() pushed them to the queue
  granted,      \* the calls in the order release() resolved them
  baseObj,      \* the base tree
  langObj,      \* the target tree
  diff,         \* the result of diffKeys(baseObj, langObj)
  outTree,      \* the tree that setAtPath builds
  todo,         \* the entries of the flat map that are still to be set
  stage,        \* where the tree computation is
  opts,         \* the flags: dryRun, auto, preferRemove, cache
  fs,           \* fs[locale][file]: the tree in the file, or Absent
  flushed,      \* how many times flushCache wrote the cache file
  at,           \* where main / syncLanguage is
  work,         \* the languages and the files that are still to be done
  job,          \* the file in progress and the translateString call awaited
  log,          \* the resolutions made, in order
  writes        \* the writeJSON and rm calls made, in order

adapterVars ==
  <<concurrency, cache, running, queue, pc, req, result,
    outcome, answer, tokens, released, enqueued, granted>>

treeVars == <<baseObj, langObj, diff, outTree, todo, stage>>

syncVars == <<opts, fs, flushed, at, work, job, log, writes>>

vars == <<adapterVars, treeVars, syncVars>>

Calls == 1..NCalls

en == <<"e", "n">>

fr == <<"f", "r">>

\* (fromLang, toLang): base to target and target to base
LocalePairs == {<<en, fr>>, <<fr, en>>}

\* res.choices?.[0]?.message?.content is missing
null == <<"null">>

EmptyMap == [k \in {} |-> <<>>]

NoReq == [text |-> <<>>, fromLang |-> <<>>, toLang |-> <<>>]

\* `${fromLang}→${toLang}::${text}`
key(text, fromLang, toLang) ==
  fromLang \o <<"→">> \o toLang \o <<":", ":">> \o text

keyOf(c) == key(req[c].text, req[c].fromLang, req[c].toLang)

\* const cached = this.cache.get(k); if (cached) ...: a missing entry and
\* the empty string are both falsy
cacheHit(k) == k \in DOMAIN cache /\ cache[k] # <<>>

\* acquire() with the limit test off by one (running <= concurrency)
acquire_offByOne(c) ==
  IF running <= concurrency
    THEN [running |-> running + 1, queue |-> queue, immediate |-> TRUE]
    ELSE [running |-> running, queue |-> Append(queue, c), immediate |-> FALSE]

\* acquire(), called by c: the new running and queue, and whether the
\* returned promise is already resolved
acquire(c) ==
  IF running < concurrency
    THEN [running |-> running + 1, queue |-> queue, immediate |-> TRUE]
    ELSE [running |-> running, queue |-> Append(queue, c), immediate |-> FALSE]

\* release() taking the newest waiter (queue.pop() for queue.shift())
release_lifo ==
  IF queue # <<>>
    THEN [running |-> running,
          queue |-> SubSeq(queue, 1, Len(queue) - 1),
          next |-> {queue[Len(queue)]}]
    ELSE [running |-> running - 1, queue |-> queue, next |-> {}]

\* release() that counts down although it hands the token to a waiter
release_countsDown ==
  IF queue # <<>>
    THEN [running |-> running - 1, queue |-> Tail(queue),
          next |-> {Head(queue)}]
    ELSE [running |-> running - 1, queue |-> queue, next |-> {}]

\* release() that counts down and never resolves a waiter
release_neverResolves ==
  [running |-> running - 1, queue |-> queue, next |-> {}]

\* release(): the new running and queue, and the waiter that was resolved
release ==
  IF queue # <<>>
    THEN [running |-> running, queue |-> Tail(queue), next |-> {Head(queue)}]
    ELSE [running |-> running - 1, queue |-> queue, next |-> {}]

\* the try block caching the response where it falls back to the text
translated_cachesResponse(text, content) ==
  LET out == trim(IF content = null THEN <<>> ELSE content)
  IN  IF Len(lost(text, out)) > 0
        THEN [cached |-> out, returned |-> text]
        ELSE [cached |-> out, returned |-> out]

\* what the try block does with a resolved response: the value it stores
\* in the cache and the value it returns
translated(text, content) ==
  LET out == trim(IF content = null THEN <<>> ELSE content)
  IN  IF Len(lost(text, out)) > 0
        THEN [cached |-> text, returned |-> text]
        ELSE [cached |-> out, returned |-> out]

\* ------------------------------------------------------------------------
\* OpenAITranslator: operations
\* ------------------------------------------------------------------------

\* the synchronous part of translateString(text, fromLang, toLang): the
\* cache lookup and, on a miss, acquire().  Calls are numbered in the order
\* in which they are issued.
translateString(c, text, fromLang, toLang) ==
  /\ pc[c] = "idle"
  /\ \A d \in 1..(c - 1) : pc[d] # "idle"
  /\ req' = [req EXCEPT ![c] =
               [text |-> text, fromLang |-> fromLang, toLang |-> toLang]]
  /\ LET k == key(text, fromLang, toLang)
     IN  IF cacheHit(k)
           THEN /\ pc' = [pc EXCEPT ![c] = "returned"]
                /\ result' = [result EXCEPT ![c] = {cache[k]}]
                /\ UNCHANGED <<running, queue, tokens, enqueued>>
           ELSE LET a == acquire(c)
                IN  /\ running' = a.running
                    /\ queue' = a.queue
                    /\ pc' = [pc EXCEPT ![c] =
                                IF a.immediate THEN "acquired" ELSE "queued"]
                    /\ tokens' = [tokens EXCEPT ![c] =
                                    IF a.immediate THEN @ + 1 ELSE @]
                    /\ enqueued' = IF a.immediate THEN enqueued
                                   ELSE Append(enqueued, c)
                    /\ UNCHANGED result
  /\ UNCHANGED <<concurrency, cache, outcome, answer, released, granted>>

\* the continuation of `await this.acquire()`: the remote call is issued
createCompletion(c) ==
  /\ pc[c] = "acquired"
  /\ pc' = [pc EXCEPT ![c] = "remote"]
  /\ UNCHANGED <<concurrency, cache, running, queue, req, result, outcome,
                 answer, tokens, released, enqueued, granted>>

\* the effect of the finally block of call c, which ends with state `end`
finally(c, end) ==
  LET r == release
  IN  /\ running' = r.running
      /\ queue' = r.queue
      /\ pc' = [d \in Calls |->
                  IF d = c THEN end
                  ELSE IF d \in r.next THEN "acquired" ELSE pc[d]]
      /\ tokens' = [d \in Calls |->
                      IF d \in r.next THEN tokens[d] + 1 ELSE tokens[d]]
      /\ granted' = IF r.next = {} THEN granted
                    ELSE Append(granted, CHOOSE d \in r.next : TRUE)
      /\ released' = [released EXCEPT ![c] = @ + 1]

\* the remote call of c resolves with `content`: placeholder check, cache
\* fill, return, release
remoteResolved(c, content) ==
  /\ pc[c] = "remote"
  /\ LET v == translated(req[c].text, content)
     IN  /\ cache' = (keyOf(c) :> v.cached) @@ cache
         /\ result' = [result EXCEPT ![c] = {v.returned}]
  /\ outcome' = [outcome EXCEPT ![c] = "ok"]
  /\ answer' = [answer EXCEPT ![c] = {content}]
  /\ finally(c, "returned")
  /\ UNCHANGED <<concurrency, req, enqueued>>

\* a rejection that leaves translateString without running release()
remoteRejected_noFinally(c) ==
  /\ pc[c] = "remote"
  /\ outcome' = [outcome EXCEPT ![c] = "fail"]
  /\ pc' = [pc EXCEPT ![c] = "threw"]
  /\ UNCHANGED <<concurrency, cache, running, queue, req, result, answer,
                 tokens, released, enqueued, granted>>

\* a rejection that is caught and answered with the source text
remoteRejected_swallowed(c) ==
  /\ pc[c] = "remote"
  /\ outcome' = [outcome EXCEPT ![c] = "fail"]
  /\ cache' = (keyOf(c) :> req[c].text) @@ cache
  /\ result' = [result EXCEPT ![c] = {req[c].text}]
  /\ finally(c, "returned")
  /\ UNCHANGED <<concurrency, req, answer, enqueued>>

\* the remote call of c rejects (timeout, auth failure, unparsable body):
\* the exception leaves translateString through the finally block
remoteRejected(c) ==
  /\ pc[c] = "remote"
  /\ outcome' = [outcome EXCEPT ![c] = "fail"]
  /\ finally(c, "threw")
  /\ UNCHANGED <<concurrency, cache, req, result, answer, enqueued>>

\* ------------------------------------------------------------------------
\* Locale trees
\* ------------------------------------------------------------------------
\* A JSON value is a record [kind, val, kids]: kind is "object" for a plain
\* object and "string", "null" or "array" for the values flatten treats as
\* leaves; kids are the own properties in insertion order, each a record
\* [key, node].  A key is a string; an array may carry named properties
\* once setAtPath has walked through it.

Obj(kids) == [kind |-> "object", val |-> <<>>, kids |-> kids]

StringLeaf == [kind |-> "string", val |-> <<"x">>, kids |-> <<>>]

NullLeaf == [kind |-> "null", val |-> <<>>, kids |-> <<>>]

ArrayLeaf == [kind |-> "array", val |-> <<>>, kids |-> <<>>]

\* the value of a missing property
undefined == [kind |-> "undefined", val |-> <<>>, kids |-> <<>>]

Leaves == {StringLeaf, NullLeaf, ArrayLeaf}

\* the property names tried: plain, containing a dot, empty
KeySet == {<<"a">>, <<"b">>, <<"a", ".", "b">>, <<>>}

\* the property lists with distinct keys out of `keys` whose values are made
\* of exactly n nodes in all, where values[m] are the values of m nodes
RECURSIVE KidSeqs(_, _, _)
KidSeqs(n, keys, values) ==
  IF n = 0 THEN {<<>>}
  ELSE UNION { UNION { LET rests == KidSeqs(n - m, keys \ {k}, values)
                       IN  { <<[key |-> k, node |-> v]>> \o rest :
                               v \in values[m], rest \in rests } :
                       m \in 1..n } :
               k \in keys }

\* <<V1, ..., Vn>>, Vm the JSON values made of exactly m nodes
RECURSIVE ValuesBySize(_)
ValuesBySize(n) ==
  IF n = 0 THEN <<>>
  ELSE LET smaller == ValuesBySize(n - 1)
       IN  Append(smaller,
                  (IF n = 1 THEN Leaves ELSE {})
                    \cup {Obj(kids) : kids \in KidSeqs(n - 1, KeySet, smaller)})

\* the values of up to MaxNodes nodes, by size
ValueTable == ValuesBySize(MaxNodes)

\* `tree` is a tree (a root object) with exactly n nodes below the root: its
\* first property has a value of m nodes, the other properties have n - m
IsTreeOfSize(tree, n) ==
  IF n = 0 THEN tree = Obj(<<>>)
  ELSE \E k \in KeySet, m \in 1..n :
         \E v \in ValueTable[m], rest \in KidSeqs(n - m, KeySet \ {k}, ValueTable) :
           tree = Obj(<<[key |-> k, node |-> v]>> \o rest)

\* isPlainObject
isPlainObject(v) == v.kind = "object"

\* the type taken together with the value
typeOf_withValue(v) ==
  IF v.kind = "array" THEN <<"array", v.val>>
  ELSE IF v.kind = "null" THEN <<"object", v.val>>
  ELSE <<v.kind, v.val>>

\* typeof v alone, without the Array.isArray test
typeOf_typeofOnly(v) ==
  IF v.kind \in {"array", "null"} THEN "object" ELSE v.kind

\* Array.isArray(v) ? "array" : typeof v
typeOf(v) ==
  IF v.kind = "array" THEN "array"
  ELSE IF v.kind = "null" THEN "object"
  ELSE v.kind

\* !v for the values of the model: undefined, null and "" are falsy
falsy(v) ==
  \/ v.kind \in {"undefined", "null"}
  \/ (v.kind = "string" /\ v.val = <<>>)

\* new Map entries are appended; an existing key keeps its position
mapSet(m, k, v) ==
  IF \E i \in 1..Len(m) : m[i].path = k
    THEN [i \in 1..Len(m) |-> IF m[i].path = k THEN [path |-> k, value |-> v]
                              ELSE m[i]]
    ELSE Append(m, [path |-> k, value |-> v])

mapHas(m, k) == \E i \in 1..Len(m) : m[i].path = k

mapGet(m, k) == m[CHOOSE i \in 1..Len(m) : m[i].path = k].value

\* the stack entries pushed for the properties of an object found at `path`
pushEntries(kids, path) ==
  [i \in 1..Len(kids) |->
     [value |-> kids[i].node,
      path |-> IF path # <<>> THEN path \o <<".">> \o kids[i].key
               ELSE kids[i].key]]

RECURSIVE flattenLoop(_, _)

\* the loop of flatten taking the oldest entry (stack.shift() for stack.pop())
flattenLoop_shift(stack, out) ==
  IF stack = <<>> THEN out
  ELSE LET top == Head(stack)
           rest == Tail(stack)
       IN  IF isPlainObject(top.value)
             THEN flattenLoop(rest \o pushEntries(top.value.kids, top.path), out)
             ELSE flattenLoop(rest, mapSet(out, top.path, top.value))

\* the while loop of flatten: pop, then push the properties or record the
\* value
flattenLoop(stack, out) ==
  IF stack = <<>> THEN out
  ELSE LET top == stack[Len(stack)]
           rest == SubSeq(stack, 1, Len(stack) - 1)
       IN  IF isPlainObject(top.value)
             THEN flattenLoop(rest \o pushEntries(top.value.kids, top.path), out)
             ELSE flattenLoop(rest, mapSet(out, top.path, top.value))

\* flatten(obj), the Map as the list of its entries in insertion order
flatten(obj) == flattenLoop(<<[value |-> obj, path |-> <<>>]>>, <<>>)

ToSet(seq) == {seq[i] : i \in 1..Len(seq)}

\* the flattened paths of a tree
Paths(tree) == {e.path : e \in ToSet(flatten(tree))}

\* another value of the same shape: another text, an array with an element;
\* null has no other value
otherValue(leaf) ==
  IF leaf.kind = "string" THEN [leaf EXCEPT !.val = <<"y">>]
  ELSE IF leaf.kind = "array" THEN [leaf EXCEPT !.val = <<"e">>]
  ELSE leaf

\* the value `node` found at `path`, with the leaves at the paths in S
\* replaced by another value of the same shape
RECURSIVE revalued(_, _, _)
revalued(node, path, S) ==
  IF isPlainObject(node)
    THEN Obj([i \in 1..Len(node.kids) |->
                [key |-> node.kids[i].key,
                 node |-> revalued(node.kids[i].node,
                                   IF path # <<>>
                                     THEN path \o <<".">> \o node.kids[i].key
                                     ELSE node.kids[i].key,
                                   S)]])
    ELSE IF path \in S THEN otherValue(node) ELSE node

\* index of the first "." of s at or after position i, 0 when there is none
RECURSIVE nextDot(_, _)
nextDot(s, i) ==
  IF i > Len(s) THEN 0
  ELSE IF s[i] = "." THEN i
  ELSE nextDot(s, i + 1)

\* dot.split(".")
RECURSIVE split(_)
split(dot) ==
  LET j == nextDot(dot, 1)
  IN  IF j = 0 THEN <<dot>>
      ELSE <<SubSeq(dot, 1, j - 1)>> \o split(SubSeq(dot, j + 1, Len(dot)))

hasProp(node, k) == \E i \in 1..Len(node.kids) : node.kids[i].key = k

\* node[k]
getProp(node, k) ==
  IF hasProp(node, k)
    THEN node.kids[CHOOSE i \in 1..Len(node.kids) : node.kids[i].key = k].node
    ELSE undefined

\* node[k] = v
setProp(node, k, v) ==
  [node EXCEPT !.kids =
     IF hasProp(node, k)
       THEN [i \in 1..Len(@) |-> IF @[i].key = k THEN [key |-> k, node |-> v]
                                 ELSE @[i]]
       ELSE Append(@, [key |-> k, node |-> v])]

RECURSIVE setAtParts(_, _, _)

\* the walk of setAtPath replacing every intermediate node by a new object
setAtParts_freshObject(cur, parts, value) ==
  IF Len(parts) = 1 THEN setProp(cur, parts[1], value)
  ELSE setProp(cur, parts[1], setAtParts(Obj(<<>>), Tail(parts), value))

\* the walk of setAtPath from `cur` along `parts`
setAtParts(cur, parts, value) ==
  IF Len(parts) = 1 THEN setProp(cur, parts[1], value)
  ELSE LET k == parts[1]
           old == getProp(cur, k)
           child == IF falsy(old) \/ typeOf(old) \notin {"object", "array"}
                      THEN Obj(<<>>)
                      ELSE old
       IN  setProp(cur, k, setAtParts(child, Tail(parts), value))

\* setAtPath(obj, dot, value): the object after the call
setAtPath(obj, dot, value) == setAtParts(obj, split(dot), value)

\* the first loop of diffKeys over baseFlat[i..]
RECURSIVE diffBase(_, _, _, _)
diffBase(baseFlat, targetFlat, i, acc) ==
  IF i > Len(baseFlat) THEN acc
  ELSE LET k == baseFlat[i].path
           v == baseFlat[i].value
       IN  IF ~mapHas(targetFlat, k)
             THEN diffBase(baseFlat, targetFlat, i + 1,
                           [acc EXCEPT !.missingInTarget = Append(@, k)])
             ELSE LET t1 == typeOf(v)
                      t2 == typeOf(mapGet(targetFlat, k))
                  IN  IF t1 # t2
                        THEN diffBase(baseFlat, targetFlat, i + 1,
                               [acc EXCEPT !.typeMismatches =
                                  Append(@, [path |-> k, baseType |-> t1,
                                             targetType |-> t2])])
                        ELSE diffBase(baseFlat, targetFlat, i + 1, acc)

\* the second loop of diffKeys with the negation of baseFlat.has(k) dropped
extraKeys_negationDropped(baseFlat, targetFlat) ==
  LET keep == SelectSeq(targetFlat, LAMBDA e : mapHas(baseFlat, e.path))
  IN  [i \in 1..Len(keep) |-> keep[i].path]

\* the second loop of diffKeys: the keys of targetFlat that baseFlat lacks
extraKeys(baseFlat, targetFlat) ==
  LET keep == SelectSeq(targetFlat, LAMBDA e : ~mapHas(baseFlat, e.path))
  IN  [i \in 1..Len(keep) |-> keep[i].path]

NoDiff ==
  [missingInTarget |-> <<>>, extraInTarget |-> <<>>, typeMismatches |-> <<>>]

\* diffKeys(baseObj, targetObj)
diffKeys(base, target) ==
  LET baseFlat == flatten(base)
      targetFlat == flatten(target)
  IN  [diffBase(baseFlat, targetFlat, 1, NoDiff)
         EXCEPT !.extraInTarget = extraKeys(baseFlat, targetFlat)]

\* ------------------------------------------------------------------------
\* Sync CLI: paths, files and flags
\* ------------------------------------------------------------------------

\* the string value t
Str(t) == [kind |-> "string", val |-> t, kids |-> <<>>]

\* cur && typeof cur === "object"
isObject(v) == v.kind \in {"object", "array"}

\* the loop of getAtPath from `cur` along `parts`
RECURSIVE getAtParts(_, _)
getAtParts(cur, parts) ==
  IF parts = <<>> THEN cur
  ELSE IF ~isObject(cur) THEN undefined
  ELSE getAtParts(getProp(cur, Head(parts)), Tail(parts))

\* getAtPath(obj, dot)
getAtPath(obj, dot) == getAtParts(obj, split(dot))

\* delete node[k]
deleteProp(node, k) ==
  [node EXCEPT !.kids = SelectSeq(@, LAMBDA e : e.key # k)]

RECURSIVE deleteAtParts(_, _)

\* deleteAtPath removing the property without the walk to its parent
deleteAtParts_atRoot(cur, parts) == deleteProp(cur, parts[Len(parts)])

\* the walk of deleteAtPath from `cur` along `parts`: the value after it
deleteAtParts(cur, parts) ==
  IF Len(parts) = 1
    THEN IF isObject(cur) THEN deleteProp(cur, parts[1]) ELSE cur
  ELSE IF ~isObject(cur) \/ ~hasProp(cur, parts[1]) THEN cur
  ELSE setProp(cur, parts[1],
               deleteAtParts(getProp(cur, parts[1]), Tail(parts)))

\* deleteAtPath(obj, dot): the object after the call
deleteAtPath(obj, dot) == deleteAtParts(obj, split(dot))

\* the rank of a character in the collation of localeCompare: punctuation
\* before letters
rank(ch) ==
  CASE ch = "." -> 0
    [] ch = "a" -> 1
    [] ch = "b" -> 2
    [] OTHER -> 3

\* a.localeCompare(b) < 0
RECURSIVE localeBefore(_, _)
localeBefore(a, b) ==
  IF b = <<>> THEN FALSE
  ELSE IF a = <<>> THEN TRUE
  ELSE IF rank(a[1]) # rank(b[1]) THEN rank(a[1]) < rank(b[1])
  ELSE localeBefore(Tail(a), Tail(b))

\* the properties in the order of Object.keys(src).sort(localeCompare)
RECURSIVE sortKids(_)
sortKids(kids) ==
  IF kids = <<>> THEN <<>>
  ELSE LET i == CHOOSE i \in 1..Len(kids) :
                  \A j \in 1..Len(kids) :
                    j = i \/ localeBefore(kids[i].key, kids[j].key)
       IN  <<kids[i]>>
             \o sortKids(SubSeq(kids, 1, i - 1) \o SubSeq(kids, i + 1, Len(kids)))

\* sortDeepKeys(input); an array is mapped to a new array
RECURSIVE sortDeepKeys(_)
sortDeepKeys(input) ==
  IF input.kind = "array" THEN [input EXCEPT !.kids = <<>>]
  ELSE IF isPlainObject(input)
    THEN LET sorted == sortKids(input.kids)
         IN  Obj([i \in 1..Len(sorted) |->
                    [key |-> sorted[i].key,
                     node |-> sortDeepKeys(sorted[i].node)]])
  ELSE input

\* the value that JSON.parse reads back from JSON.stringify(node): a
\* property whose value is undefined is left out, an array keeps its
\* elements only
RECURSIVE stringify(_)
stringify(node) ==
  IF node.kind = "array" THEN [node EXCEPT !.kids = <<>>]
  ELSE IF node.kind = "object"
    THEN LET kept == SelectSeq(node.kids, LAMBDA e : e.node.kind # "undefined")
         IN  Obj([i \in 1..Len(kept) |->
                    [key |-> kept[i].key, node |-> stringify(kept[i].node)]])
  ELSE node

\* a file that does not exist
Absent == [kind |-> "absent", val |-> <<>>, kids |-> <<>>]

\* the *.json files of a locale directory, as listJsonFiles sorts them
FileNames == <<"f.json", "g.json">>

\* the non-base languages
others == <<fr>>

\* listJsonFiles(dir) for the directory of locale `loc`
listJsonFiles(loc) == SelectSeq(FileNames, LAMBDA f : fs[loc][f] # Absent)

\* readJSONSync(path): {} when the file cannot be read
readJSONSync(loc, file) ==
  IF fs[loc][file] = Absent THEN Obj(<<>>) ELSE fs[loc][file]

\* writeJSON with the dryRun test left out
writeJSON_ignoresDryRun(files, loc, file, obj) ==
  [files EXCEPT ![loc][file] = stringify(sortDeepKeys(obj))]

\* writeJSON(path, obj, dryRun): the files after the call
writeJSON(files, loc, file, obj) ==
  IF opts.dryRun THEN files
  ELSE [files EXCEPT ![loc][file] = stringify(sortDeepKeys(obj))]

\* if (!dryRun) await fsp.rm(path): the files after it
rm(files, loc, file) ==
  IF opts.dryRun THEN files ELSE [files EXCEPT ![loc][file] = Absent]

\* the record of a writeJSON or rm call
written(op, loc, file, obj) ==
  [op |-> op, locale |-> loc, file |-> file,
   tree |-> IF op = "write" THEN stringify(sortDeepKeys(obj)) ELSE Absent,
   committed |-> ~opts.dryRun]

\* auto ? false : await promptYesNo(...)
ask_declines(auto, ans) ==
  IF opts.auto THEN [value |-> FALSE, asked |-> <<>>]
  ELSE [value |-> ans, asked |-> <<ans>>]

\* await promptYesNo(...) whatever --auto is
ask_alwaysPrompts(auto, ans) == [value |-> ans, asked |-> <<ans>>]

\* auto ? value : await promptYesNo(...) where the user answers `ans`: the
\* value, and the answers that promptYesNo returned
ask(auto, ans) ==
  IF opts.auto THEN [value |-> auto, asked |-> <<>>]
  ELSE [value |-> ans, asked |-> <<ans>>]

\* the record of the resolution of one discrepancy, or of one leaf of a
\* whole-file translation: the answers of the user, the action taken, the
\* value read at the path and the translateString call made (0 for none)
event(file, kind, path, asked, action, value, call) ==
  [file |-> file, kind |-> kind, path |-> path, asked |-> asked,
   action |-> action, value |-> value, call |-> call]

NoJob ==
  [file |-> "", branch |-> "none", from |-> <<>>, to |-> <<>>,
   key |-> <<>>, call |-> 0]

\* this.cacheFile is set: params.enableCache is !!opts.cache
cacheFile == opts.cache

\* flushCache(): the number of writes of the cache file after the call
flushCache(n) == IF ~cacheFile THEN n ELSE n + 1

\* no run of the CLI
noRun ==
  /\ opts = [dryRun |-> FALSE, auto |-> FALSE, preferRemove |-> FALSE,
             cache |-> FALSE]
  /\ fs = [loc \in {en, fr} |-> [f \in ToSet(FileNames) |-> Absent]]
  /\ flushed = 0
  /\ at = "none"
  /\ work = [langs |-> <<>>, missing |-> <<>>, extra |-> <<>>, common |-> <<>>]
  /\ job = NoJob
  /\ log = <<>>
  /\ writes = <<>>


\* ------------------------------------------------------------------------
\* Sync CLI: main and syncLanguage
\* ------------------------------------------------------------------------

\* the language that syncLanguage is comparing with the base
lang == Head(work.langs)

\* the files still to be resolved, with the first one of `list` done
done(list) ==
  [work EXCEPT ![list] = Tail(@)]

\* main calls syncLanguage for the next language: the file lists
syncLanguage ==
  /\ at = "main"
  /\ work.langs # <<>>
  /\ LET baseFiles == listJsonFiles(en)
         langFiles == listJsonFiles(lang)
     IN  work' = [work EXCEPT
           !.missing = SelectSeq(baseFiles, LAMBDA f : fs[lang][f] = Absent),
           !.extra = SelectSeq(langFiles, LAMBDA f : fs[en][f] = Absent),
           !.common = SelectSeq(baseFiles, LAMBDA f : fs[lang][f] # Absent)]
  /\ at' = "files"
  /\ UNCHANGED <<opts, fs, flushed, job, log, writes>>
  /\ UNCHANGED <<treeVars, adapterVars>>

\* translateString called with the path in the place of the text
awaitTranslateString_sendsPath(text, from, to, branch, path) ==
  \E c \in Calls :
    /\ translateString(c, path, from, to)
    /\ job' = [job EXCEPT !.branch = branch, !.from = from, !.to = to,
                          !.key = path, !.call = c]

\* await translator.translateString(text, from, to) in `branch` for `path`,
\* up to the first suspension of the call
awaitTranslateString(text, from, to, branch, path) ==
  \E c \in Calls :
    /\ translateString(c, text, from, to)
    /\ job' = [job EXCEPT !.branch = branch, !.from = from, !.to = to,
                          !.key = path, !.call = c]

\* one iteration of the loop over filesMissingInLang, up to the call of
\* translateWholeFile; the user answers a1 and a2 when asked
missingFile(a1, a2) ==
  /\ at = "files"
  /\ work.missing # <<>>
  /\ LET file == Head(work.missing)
         actionCreate == ask(~opts.preferRemove, a1)
         actionRemoveFromBase == ask(opts.preferRemove, a2)
     IN  /\ baseObj' = readJSONSync(en, file)
         /\ IF actionCreate.value
              THEN /\ outTree' = stringify(baseObj')
                   /\ todo' = flatten(baseObj')
                   /\ at' = "whole"
                   /\ job' = [NoJob EXCEPT !.file = file,
                                !.branch = "missingFile",
                                !.from = en, !.to = lang]
                   /\ log' = Append(log, event(file, "missingFile", <<>>,
                                actionCreate.asked, "translate", undefined, 0))
                   /\ UNCHANGED <<fs, writes, work>>
              ELSE IF actionRemoveFromBase.value
                THEN /\ fs' = rm(fs, en, file)
                     /\ writes' = Append(writes, written("rm", en, file, Absent))
                     /\ log' = Append(log, event(file, "missingFile", <<>>,
                                  actionCreate.asked \o actionRemoveFromBase.asked,
                                  "remove", undefined, 0))
                     /\ work' = done("missing")
                     /\ UNCHANGED <<outTree, todo, at, job>>
                ELSE /\ log' = Append(log, event(file, "missingFile", <<>>,
                                  actionCreate.asked \o actionRemoveFromBase.asked,
                                  "skip", undefined, 0))
                     /\ work' = done("missing")
                     /\ UNCHANGED <<fs, writes, outTree, todo, at, job>>
  /\ UNCHANGED <<opts, flushed, langObj, diff, stage>>
  /\ UNCHANGED adapterVars

\* one iteration of the loop over filesExtraInLang, up to the call of
\* translateWholeFile
extraFile(a1, a2) ==
  /\ at = "files"
  /\ work.missing = <<>>
  /\ work.extra # <<>>
  /\ LET file == Head(work.extra)
         actionAddToBase == ask(~opts.preferRemove, a1)
         actionRemoveFromLang == ask(opts.preferRemove, a2)
     IN  IF actionAddToBase.value
           THEN /\ langObj' = readJSONSync(lang, file)
                /\ outTree' = stringify(langObj')
                /\ todo' = flatten(langObj')
                /\ at' = "whole"
                /\ job' = [NoJob EXCEPT !.file = file,
                             !.branch = "extraFile",
                             !.from = lang, !.to = en]
                /\ log' = Append(log, event(file, "extraFile", <<>>,
                             actionAddToBase.asked, "translate", undefined, 0))
                /\ UNCHANGED <<fs, writes, work>>
           ELSE IF actionRemoveFromLang.value
             THEN /\ fs' = rm(fs, lang, file)
                  /\ writes' = Append(writes, written("rm", lang, file, Absent))
                  /\ log' = Append(log, event(file, "extraFile", <<>>,
                               actionAddToBase.asked \o actionRemoveFromLang.asked,
                               "remove", undefined, 0))
                  /\ work' = done("extra")
                  /\ UNCHANGED <<langObj, outTree, todo, at, job>>
             ELSE /\ log' = Append(log, event(file, "extraFile", <<>>,
                               actionAddToBase.asked \o actionRemoveFromLang.asked,
                               "skip", undefined, 0))
                  /\ work' = done("extra")
                  /\ UNCHANGED <<fs, writes, langObj, outTree, todo, at, job>>
  /\ UNCHANGED <<opts, flushed, baseObj, diff, stage>>
  /\ UNCHANGED adapterVars

\* the loop of translateWholeFile calling translateString without await
wholeFileKey_noAwait ==
  /\ at = "whole"
  /\ todo # <<>>
  /\ LET k == Head(todo).path
         v == Head(todo).value
     IN  IF typeOf(v) = "string"
           THEN /\ awaitTranslateString(v.val, job.from, job.to, job.branch, k)
                /\ log' = Append(log, event(job.file, "leaf", k, <<>>,
                                            "translate", v, job'.call))
                /\ UNCHANGED <<outTree, at>>
           ELSE /\ outTree' = setAtPath(outTree, k, v)
                /\ log' = Append(log, event(job.file, "leaf", k, <<>>,
                                            "copy", v, 0))
                /\ UNCHANGED <<at, job>>
                /\ UNCHANGED adapterVars
  /\ todo' = Tail(todo)
  /\ UNCHANGED <<opts, fs, flushed, work, writes>>
  /\ UNCHANGED <<baseObj, langObj, diff, stage>>

\* one iteration of the loop of translateWholeFile over the keys of the
\* flat map, up to the suspension of translateString
wholeFileKey ==
  /\ at = "whole"
  /\ todo # <<>>
  /\ LET k == Head(todo).path
         v == Head(todo).value
     IN  IF typeOf(v) = "string"
           THEN /\ awaitTranslateString(v.val, job.from, job.to, job.branch, k)
                /\ at' = "awaitWhole"
                /\ log' = Append(log, event(job.file, "leaf", k, <<>>,
                                            "translate", v, job'.call))
                /\ UNCHANGED <<outTree, todo>>
           ELSE /\ outTree' = setAtPath(outTree, k, v)
                /\ todo' = Tail(todo)
                /\ log' = Append(log, event(job.file, "leaf", k, <<>>,
                                            "copy", v, 0))
                /\ UNCHANGED <<at, job>>
                /\ UNCHANGED adapterVars
  /\ UNCHANGED <<opts, fs, flushed, work, writes>>
  /\ UNCHANGED <<baseObj, langObj, diff, stage>>

\* translateWholeFile setting t under the last segment of k at the root
wholeFileResumes_lastSegment ==
  /\ at = "awaitWhole"
  /\ pc[job.call] = "returned"
  /\ \E t \in result[job.call] :
       LET parts == split(Head(todo).path)
       IN  outTree' = setAtPath(outTree, parts[Len(parts)], Str(t))
  /\ todo' = Tail(todo)
  /\ at' = "whole"
  /\ job' = [job EXCEPT !.call = 0]
  /\ UNCHANGED <<opts, fs, flushed, work, log, writes>>
  /\ UNCHANGED <<baseObj, langObj, diff, stage>>
  /\ UNCHANGED adapterVars

\* translateWholeFile going on to the next key without setAtPath(out, k, t)
wholeFileResumes_keepsSource ==
  /\ at = "awaitWhole"
  /\ pc[job.call] = "returned"
  /\ todo' = Tail(todo)
  /\ at' = "whole"
  /\ job' = [job EXCEPT !.call = 0]
  /\ UNCHANGED <<opts, fs, flushed, work, log, writes>>
  /\ UNCHANGED <<baseObj, langObj, outTree, diff, stage>>
  /\ UNCHANGED adapterVars

\* translateString has returned t to translateWholeFile: setAtPath(out, k, t)
wholeFileResumes ==
  /\ at = "awaitWhole"
  /\ pc[job.call] = "returned"
  /\ \E t \in result[job.call] :
       outTree' = setAtPath(outTree, Head(todo).path, Str(t))
  /\ todo' = Tail(todo)
  /\ at' = "whole"
  /\ job' = [job EXCEPT !.call = 0]
  /\ UNCHANGED <<opts, fs, flushed, work, log, writes>>
  /\ UNCHANGED <<baseObj, langObj, diff, stage>>
  /\ UNCHANGED adapterVars

\* translateWholeFile returns out: writeJSON of the created file
wholeFileWritten ==
  /\ at = "whole"
  /\ todo = <<>>
  /\ LET dest == IF job.branch = "missingFile" THEN lang ELSE en
     IN  /\ fs' = writeJSON(fs, dest, job.file, outTree)
         /\ writes' = Append(writes, written("write", dest, job.file, outTree))
  /\ work' = done(IF job.branch = "missingFile" THEN "missing" ELSE "extra")
  /\ at' = "files"
  /\ job' = NoJob
  /\ UNCHANGED <<opts, flushed, log>>
  /\ UNCHANGED treeVars
  /\ UNCHANGED adapterVars

\* one iteration of the loop over commonFiles, up to its first key
commonFile ==
  /\ at = "files"
  /\ work.missing = <<>>
  /\ work.extra = <<>>
  /\ work.common # <<>>
  /\ LET file == Head(work.common)
     IN  /\ baseObj' = readJSONSync(en, file)
         /\ langObj' = readJSONSync(lang, file)
         /\ diff' = diffKeys(baseObj', langObj')
         /\ IF diff' = NoDiff
              THEN /\ work' = done("common")
                   /\ UNCHANGED <<at, job>>
              ELSE /\ at' = "keys"
                   /\ job' = [NoJob EXCEPT !.file = file]
                   /\ UNCHANGED work
  /\ UNCHANGED <<opts, fs, flushed, log, writes>>
  /\ UNCHANGED <<outTree, todo, stage>>
  /\ UNCHANGED adapterVars

\* the diff with the first key of `list` resolved
resolved(list) == [diff EXCEPT ![list] = Tail(@)]

\* one iteration of the loop over missingInTarget, up to the suspension of
\* translateString
missingKey(a1, a2) ==
  /\ at = "keys"
  /\ diff.missingInTarget # <<>>
  /\ LET k == Head(diff.missingInTarget)
         srcVal == getAtPath(baseObj, k)
         isString == typeOf(srcVal) = "string"
         doTranslate == ask(~opts.preferRemove, a1)
         removeFromBase == ask(opts.preferRemove, a2)
     IN  IF doTranslate.value
           THEN /\ IF isString
                     THEN /\ awaitTranslateString(srcVal.val, en, lang,
                                                  "missingKey", k)
                          /\ at' = "awaitKey"
                          /\ UNCHANGED <<langObj, diff>>
                     ELSE /\ langObj' = setAtPath(langObj, k, srcVal)
                          /\ diff' = resolved("missingInTarget")
                          /\ UNCHANGED <<at, job>>
                          /\ UNCHANGED adapterVars
                /\ UNCHANGED baseObj
                /\ log' = Append(log, event(job.file, "missingKey", k,
                                   doTranslate.asked, "translate", srcVal,
                                   IF isString THEN job'.call ELSE 0))
           ELSE /\ log' = Append(log, event(job.file, "missingKey", k,
                                   doTranslate.asked \o removeFromBase.asked,
                                   IF removeFromBase.value THEN "remove"
                                   ELSE "skip", srcVal, 0))
                /\ baseObj' = IF removeFromBase.value
                                THEN deleteAtPath(baseObj, k) ELSE baseObj
                /\ diff' = resolved("missingInTarget")
                /\ UNCHANGED <<langObj, at, job>>
                /\ UNCHANGED adapterVars
  /\ UNCHANGED <<opts, fs, flushed, work, writes>>
  /\ UNCHANGED <<outTree, todo, stage>>

\* one iteration of the loop over extraInTarget, up to the suspension of
\* translateString
extraKey(a1, a2) ==
  /\ at = "keys"
  /\ diff.missingInTarget = <<>>
  /\ diff.extraInTarget # <<>>
  /\ LET k == Head(diff.extraInTarget)
         tgtVal == getAtPath(langObj, k)
         isString == typeOf(tgtVal) = "string"
         addToBase == ask(~opts.preferRemove, a1)
         removeFromLang == ask(opts.preferRemove, a2)
     IN  IF addToBase.value
           THEN /\ IF isString
                     THEN /\ awaitTranslateString(tgtVal.val, lang, en,
                                                  "extraKey", k)
                          /\ at' = "awaitKey"
                          /\ UNCHANGED <<baseObj, diff>>
                     ELSE /\ baseObj' = setAtPath(baseObj, k, tgtVal)
                          /\ diff' = resolved("extraInTarget")
                          /\ UNCHANGED <<at, job>>
                          /\ UNCHANGED adapterVars
                /\ UNCHANGED langObj
                /\ log' = Append(log, event(job.file, "extraKey", k,
                                   addToBase.asked, "translate", tgtVal,
                                   IF isString THEN job'.call ELSE 0))
           ELSE /\ log' = Append(log, event(job.file, "extraKey", k,
                                   addToBase.asked \o removeFromLang.asked,
                                   IF removeFromLang.value THEN "remove"
                                   ELSE "skip", tgtVal, 0))
                /\ langObj' = IF removeFromLang.value
                                THEN deleteAtPath(langObj, k) ELSE langObj
                /\ diff' = resolved("extraInTarget")
                /\ UNCHANGED <<baseObj, at, job>>
                /\ UNCHANGED adapterVars
  /\ UNCHANGED <<opts, fs, flushed, work, writes>>
  /\ UNCHANGED <<outTree, todo, stage>>

\* translateString has returned t to the loop over the missing or over the
\* extra keys: setAtPath(langObj, key, t) or setAtPath(baseObj, key, t)
keyResumes ==
  /\ at = "awaitKey"
  /\ pc[job.call] = "returned"
  /\ \E t \in result[job.call] :
       IF job.branch = "missingKey"
         THEN /\ langObj' = setAtPath(langObj, job.key, Str(t))
              /\ diff' = resolved("missingInTarget")
              /\ UNCHANGED baseObj
         ELSE /\ baseObj' = setAtPath(baseObj, job.key, Str(t))
              /\ diff' = resolved("extraInTarget")
              /\ UNCHANGED langObj
  /\ at' = "keys"
  /\ job' = [job EXCEPT !.call = 0]
  /\ UNCHANGED <<opts, fs, flushed, work, log, writes>>
  /\ UNCHANGED <<outTree, todo, stage>>
  /\ UNCHANGED adapterVars

\* one iteration of the loop over typeMismatches
typeMismatch(a1, a2) ==
  /\ at = "keys"
  /\ diff.missingInTarget = <<>>
  /\ diff.extraInTarget = <<>>
  /\ diff.typeMismatches # <<>>
  /\ LET tm == Head(diff.typeMismatches)
         keepBaseShape == ask(TRUE, a1)
         overwriteBase == ask(FALSE, a2)
     IN  IF keepBaseShape.value
           THEN /\ langObj' = setAtPath(langObj, tm.path,
                                        getAtPath(baseObj, tm.path))
                /\ log' = Append(log, event(job.file, "typeMismatch", tm.path,
                                   keepBaseShape.asked, "overwriteTarget",
                                   getAtPath(baseObj, tm.path), 0))
                /\ UNCHANGED baseObj
           ELSE /\ baseObj' = IF overwriteBase.value
                                THEN setAtPath(baseObj, tm.path,
                                               getAtPath(langObj, tm.path))
                                ELSE baseObj
                /\ log' = Append(log, event(job.file, "typeMismatch", tm.path,
                                   keepBaseShape.asked \o overwriteBase.asked,
                                   IF overwriteBase.value THEN "overwriteBase"
                                   ELSE "leave",
                                   getAtPath(langObj, tm.path), 0))
                /\ UNCHANGED langObj
  /\ diff' = resolved("typeMismatches")
  /\ UNCHANGED <<opts, fs, flushed, work, at, job, writes>>
  /\ UNCHANGED <<outTree, todo, stage>>
  /\ UNCHANGED adapterVars

\* the end of an iteration over commonFiles with the target written alone
commonFileWritten_targetOnly ==
  /\ at = "keys"
  /\ diff = NoDiff
  /\ fs' = writeJSON(fs, lang, job.file, langObj)
  /\ writes' = Append(writes, written("write", lang, job.file, langObj))
  /\ work' = done("common")
  /\ at' = "files"
  /\ job' = NoJob
  /\ UNCHANGED <<opts, flushed, log>>
  /\ UNCHANGED treeVars
  /\ UNCHANGED adapterVars

\* the end of an iteration over commonFiles: writeJSON of both trees
commonFileWritten ==
  /\ at = "keys"
  /\ diff = NoDiff
  /\ fs' = writeJSON(writeJSON(fs, en, job.file, baseObj),
                     lang, job.file, langObj)
  /\ writes' = writes \o <<written("write", en, job.file, baseObj),
                           written("write", lang, job.file, langObj)>>
  /\ work' = done("common")
  /\ at' = "files"
  /\ job' = NoJob
  /\ UNCHANGED <<opts, flushed, log>>
  /\ UNCHANGED treeVars
  /\ UNCHANGED adapterVars

\* syncLanguage returns to the loop of main
syncLanguageReturns ==
  /\ at = "files"
  /\ work.missing = <<>>
  /\ work.extra = <<>>
  /\ work.common = <<>>
  /\ work' = done("langs")
  /\ at' = "main"
  /\ UNCHANGED <<opts, fs, flushed, job, log, writes>>
  /\ UNCHANGED <<treeVars, adapterVars>>

\* the end of main: if (opts.cache) await translator.flushCache()
mainReturns ==
  /\ at = "main"
  /\ work.langs = <<>>
  /\ flushed' = IF opts.cache THEN flushCache(flushed) ELSE flushed
  /\ at' = "done"
  /\ UNCHANGED <<opts, fs, work, job, log, writes>>
  /\ UNCHANGED <<treeVars, adapterVars>>

\* the rejection caught inside the loop, which goes on with the next key
mainCatch_resumes ==
  /\ at \in {"awaitWhole", "awaitKey"}
  /\ pc[job.call] = "threw"
  /\ IF at = "awaitWhole"
       THEN /\ todo' = Tail(todo)
            /\ at' = "whole"
            /\ UNCHANGED diff
       ELSE /\ diff' = resolved(IF job.branch = "missingKey"
                                  THEN "missingInTarget" ELSE "extraInTarget")
            /\ at' = "keys"
            /\ UNCHANGED todo
  /\ job' = [job EXCEPT !.call = 0]
  /\ UNCHANGED <<opts, fs, flushed, work, log, writes>>
  /\ UNCHANGED <<baseObj, langObj, outTree, stage>>
  /\ UNCHANGED adapterVars

\* main().catch flushing the cache before process.exit(1)
mainCatch_flushes ==
  /\ at \in {"awaitWhole", "awaitKey"}
  /\ pc[job.call] = "threw"
  /\ flushed' = IF opts.cache THEN flushCache(flushed) ELSE flushed
  /\ at' = "exit1"
  /\ UNCHANGED <<opts, fs, work, job, log, writes>>
  /\ UNCHANGED <<treeVars, adapterVars>>

\* main().catch: the rejection of the awaited translateString reaches the
\* top level, process.exit(1)
mainCatch ==
  /\ at \in {"awaitWhole", "awaitKey"}
  /\ pc[job.call] = "threw"
  /\ at' = "exit1"
  /\ UNCHANGED <<opts, fs, flushed, work, job, log, writes>>
  /\ UNCHANGED <<treeVars, adapterVars>>

\* ------------------------------------------------------------------------
\* Specification of the adapter under concurrent callers
\* ------------------------------------------------------------------------

\* source texts of the concurrent specification: with and without a
\* placeholder
SomeTexts == {<<"a">>, <<"{", "a", "}">>}

\* remote answers of the concurrent specification: no content, the
\* placeholder dropped, the placeholder kept
SomeContents == {null, <<"b">>, <<"{", "a", "}", " ", "b">>}

\* the persisted cache files tried: none (or caching disabled), and one
\* entry whose value is a translation, lacks the placeholder of its text, or
\* is empty
CacheFiles ==
  { EmptyMap,
    key(<<"a">>, en, fr) :> <<"b">>,
    key(<<"{", "a", "}">>, en, fr) :> <<"b">>,
    key(<<"a">>, en, fr) :> <<>> }

\* new OpenAITranslator({concurrency: n, ...}) where the cache file holds
\* `file`
constructed(n, file) ==
  /\ concurrency = IF n > 1 THEN n ELSE 1
  /\ cache = file
  /\ running = 0
  /\ queue = <<>>
  /\ pc = [c \in Calls |-> "idle"]
  /\ req = [c \in Calls |-> NoReq]
  /\ result = [c \in Calls |-> {}]
  /\ outcome = [c \in Calls |-> "none"]
  /\ answer = [c \in Calls |-> {}]
  /\ tokens = [c \in Calls |-> 0]
  /\ released = [c \in Calls |-> 0]
  /\ enqueued = <<>>
  /\ granted = <<>>

\* no tree has been read
noTrees ==
  /\ baseObj = Obj(<<>>)
  /\ langObj = Obj(<<>>)
  /\ diff = NoDiff
  /\ outTree = Obj(<<>>)
  /\ todo = <<>>
  /\ stage = "idle"

Init ==
  /\ \E n \in 0..MaxConcurrency, file \in CacheFiles : constructed(n, file)
  /\ noTrees
  /\ noRun

Next ==
  \/ \E c \in Calls, t \in SomeTexts :
       translateString(c, t, en, fr) /\ UNCHANGED <<treeVars, syncVars>>
  \/ \E c \in Calls : createCompletion(c) /\ UNCHANGED <<treeVars, syncVars>>
  \/ \E c \in Calls, content \in SomeContents :
       remoteResolved(c, content) /\ UNCHANGED <<treeVars, syncVars>>
  \/ \E c \in Calls : remoteRejected(c) /\ UNCHANGED <<treeVars, syncVars>>

Spec == Init /\ [][Next]_vars

\* a translator without a cache file, for every limit
InitFair ==
  /\ \E n \in 0..MaxConcurrency : constructed(n, EmptyMap)
  /\ noTrees
  /\ noRun

\* the remote call of c completes, with an answer or with a failure
remoteCompletes(c) ==
  \/ remoteResolved(c, <<"b">>) /\ UNCHANGED <<treeVars, syncVars>>
  \/ remoteRejected(c) /\ UNCHANGED <<treeVars, syncVars>>

NextFair ==
  \/ \E c \in Calls, t \in SomeTexts :
       translateString(c, t, en, fr) /\ UNCHANGED <<treeVars, syncVars>>
  \/ \E c \in Calls : createCompletion(c) /\ UNCHANGED <<treeVars, syncVars>>
  \/ \E c \in Calls : remoteCompletes(c)

\* the event loop runs the continuation of every resolved acquire(), and
\* every remote call that was started completes
Fairness ==
  /\ \A c \in Calls : WF_vars(createCompletion(c) /\ UNCHANGED <<treeVars, syncVars>>)
  /\ \A c \in Calls : WF_vars(remoteCompletes(c))

\* the adapter under concurrent callers, every started remote call
\* completing
SpecFair == InitFair /\ [][NextFair]_vars /\ Fairness

\* ------------------------------------------------------------------------
\* Specification of one call of the adapter, over every short text and
\* every short answer
\* ------------------------------------------------------------------------

TextChars == {"{", "}", "a"}

ContentChars == {"{", "}", "a", " "}

AllTexts == StringsUpTo(TextChars, MaxTextLen)

AllContents == StringsUpTo(ContentChars, MaxRespLen) \cup {null}

\* a translator without a cache file
InitText == constructed(MaxConcurrency, EmptyMap) /\ noTrees /\ noRun

NextText ==
  \/ \E t \in AllTexts, lp \in LocalePairs :
       translateString(1, t, lp[1], lp[2]) /\ UNCHANGED <<treeVars, syncVars>>
  \/ createCompletion(1) /\ UNCHANGED <<treeVars, syncVars>>
  \/ \E content \in AllContents :
       remoteResolved(1, content) /\ UNCHANGED <<treeVars, syncVars>>
  \/ remoteRejected(1) /\ UNCHANGED <<treeVars, syncVars>>

\* ------------------------------------------------------------------------
\* Specification of diffKeys over pairs of small trees
\* ------------------------------------------------------------------------

\* readJSONSync of the base file and of the target file: two trees with at
\* most MaxNodes nodes in all, or twice the same tree of at most MaxNodes
\* nodes, or a tree of at most MaxNodes nodes and the same tree with other
\* values at some of its leaves (a translation of it)
InitDiff ==
  /\ constructed(1, EmptyMap)
  /\ \E i \in 0..MaxNodes :
       /\ IsTreeOfSize(baseObj, i)
       /\ \/ \E j \in 0..(MaxNodes - i) : IsTreeOfSize(langObj, j)
          \/ langObj = baseObj
          \/ \E S \in SUBSET Paths(baseObj) :
               langObj = revalued(baseObj, <<>>, S)
  /\ diff = NoDiff
  /\ outTree = Obj(<<>>)
  /\ todo = <<>>
  /\ stage = "read"
  /\ noRun

\* const {missingInTarget, extraInTarget, typeMismatches} = diffKeys(...)
runDiffKeys ==
  /\ stage = "read"
  /\ diff' = diffKeys(baseObj, langObj)
  /\ stage' = "diffed"
  /\ UNCHANGED <<baseObj, langObj, outTree, todo>>
  /\ UNCHANGED <<adapterVars, syncVars>>

NextDiff == runDiffKeys

SpecDiff == InitDiff /\ [][NextDiff]_vars

\* ------------------------------------------------------------------------
\* Specification of the rebuilding of a tree from its flat map
\* ------------------------------------------------------------------------

\* a tree with at most MaxNodes nodes is read
InitRound ==
  /\ constructed(1, EmptyMap)
  /\ \E n \in 0..MaxNodes : IsTreeOfSize(baseObj, n)
  /\ langObj = Obj(<<>>)
  /\ diff = NoDiff
  /\ outTree = Obj(<<>>)
  /\ todo = <<>>
  /\ stage = "read"
  /\ noRun

\* flatten(baseObj), and an empty tree to rebuild it in
runFlatten ==
  /\ stage = "read"
  /\ todo' = flatten(baseObj)
  /\ outTree' = Obj(<<>>)
  /\ stage' = "rebuild"
  /\ UNCHANGED <<baseObj, langObj, diff>>
  /\ UNCHANGED <<adapterVars, syncVars>>

\* setAtPath(out, k, v) for the next entry (k, v) of the flat map
runSetAtPath ==
  /\ stage = "rebuild"
  /\ todo # <<>>
  /\ outTree' = setAtPath(outTree, Head(todo).path, Head(todo).value)
  /\ todo' = Tail(todo)
  /\ UNCHANGED <<baseObj, langObj, diff, stage>>
  /\ UNCHANGED <<adapterVars, syncVars>>

NextRound == runFlatten \/ runSetAtPath

SpecRound == InitRound /\ [][NextRound]_vars

SpecText == InitText /\ [][NextText]_vars

\* ------------------------------------------------------------------------
\* Specification of a run of the sync CLI
\* ------------------------------------------------------------------------

\* the base file of the first file name when it exists: one text
FirstFile == Obj(<<[key |-> <<"a">>, node |-> StringLeaf]>>)

\* the trees with exactly n nodes below the root
TreesOfSize(n) == {Obj(kids) : kids \in KidSeqs(n, KeySet, ValueTable)}

\* a text of the base nested under a property that is a leaf of the target,
\* and the reverse
Nested == Obj(<<[key |-> <<"a">>,
                 node |-> Obj(<<[key |-> <<"b">>, node |-> StringLeaf]>>)]>>)

Flat == Obj(<<[key |-> <<"a">>, node |-> NullLeaf]>>)

\* the flags that main passes on, and opts.cache; preferRemove has no
\* effect without --auto
Flags ==
  {o \in [dryRun : BOOLEAN, auto : BOOLEAN, preferRemove : BOOLEAN,
          cache : BOOLEAN] : o.preferRemove => o.auto}

\* the answers of the remote call in a run: a translation
SyncContents == {<<"b">>}

\* main up to the loop over the languages, for every combination of the
\* flags and every limit of the adapter: the first file exists under the base only, or nowhere; the second
\* file exists under the base, the target, both or none, with at most
\* MaxFileNodes nodes in all, or with a leaf of one tree where the other has
\* an object
InitSync ==
  /\ opts \in Flags
  /\ \E n \in 1..MaxConcurrency : constructed(n, EmptyMap)
  /\ noTrees
  /\ \E first \in {Absent, FirstFile} :
       \E pair \in {<<Nested, Flat>>, <<Flat, Nested>>}
                     \cup UNION { UNION { ({Absent} \cup TreesOfSize(i))
                                            \X ({Absent} \cup TreesOfSize(j)) :
                                          j \in 0..(MaxFileNodes - i) } :
                                  i \in 0..MaxFileNodes } :
         fs = (en :> ("f.json" :> first @@ "g.json" :> pair[1]))
                @@ (fr :> ("f.json" :> Absent @@ "g.json" :> pair[2]))
  /\ flushed = 0
  /\ at = "main"
  /\ work = [langs |-> others, missing |-> <<>>, extra |-> <<>>,
             common |-> <<>>]
  /\ job = NoJob
  /\ log = <<>>
  /\ writes = <<>>

NextSync ==
  \/ syncLanguage
  \/ \E a1, a2 \in BOOLEAN : missingFile(a1, a2)
  \/ \E a1, a2 \in BOOLEAN : extraFile(a1, a2)
  \/ wholeFileKey
  \/ wholeFileResumes
  \/ wholeFileWritten
  \/ commonFile
  \/ \E a1, a2 \in BOOLEAN : missingKey(a1, a2)
  \/ \E a1, a2 \in BOOLEAN : extraKey(a1, a2)
  \/ keyResumes
  \/ \E a1, a2 \in BOOLEAN : typeMismatch(a1, a2)
  \/ commonFileWritten
  \/ syncLanguageReturns
  \/ mainReturns
  \/ mainCatch
  \/ \E c \in Calls : createCompletion(c) /\ UNCHANGED <<treeVars, syncVars>>
  \/ \E c \in Calls, content \in SyncContents :
       remoteResolved(c, content) /\ UNCHANGED <<treeVars, syncVars>>
  \/ \E c \in Calls : remoteRejected(c) /\ UNCHANGED <<treeVars, syncVars>>

SpecSync == InitSync /\ [][NextSync]_vars

\* ------------------------------------------------------------------------
\* Properties of the adapter
\* ------------------------------------------------------------------------

\* the calls whose remote request is in flight
InFlight == {c \in Calls : pc[c] = "remote"}

\* the calls that hold a token
Holders == {c \in Calls : pc[c] \in {"acquired", "remote"}}

Ended(c) == pc[c] \in {"returned", "threw"}

Started(c) == pc[c] # "idle"

\* the calls that have invoked the remote call
Invoked == {c \in Calls : pc[c] = "remote" \/ outcome[c] # "none"}

IsPrefix(a, b) == Len(a) <= Len(b) /\ SubSeq(b, 1, Len(a)) = a

\* ph is a placeholder token of s: a substring "{...}" with one or more
\* characters between the braces, none of them a brace
IsPlaceholderOf(ph, s) ==
  /\ Len(ph) >= 3
  /\ ph[1] = "{"
  /\ ph[Len(ph)] = "}"
  /\ \A i \in 2..(Len(ph) - 1) : ~IsBrace(ph[i])
  /\ includes(s, ph)

\* the substrings of s
Substrings(s) == {SubSeq(s, i, j) : i \in 1..(Len(s) + 1), j \in 0..Len(s)}

\* the remote response of c, as a string, lacks a placeholder of its text
AnswerLostPlaceholder(c) ==
  /\ outcome[c] = "ok"
  /\ \E content \in answer[c] :
       \E ph \in Substrings(req[c].text) :
         /\ IsPlaceholderOf(ph, req[c].text)
         /\ ~includes(IF content = null THEN <<>> ELSE content, ph)

\* C1: for every limit N, the number of remote translation calls in flight
\* at the same time never exceeds N.
C1_InFlightWithinLimit == Cardinality(InFlight) <= concurrency

\* the limit of two is reached while a third call waits
C1_Witness ==
  /\ concurrency >= 2
  /\ Cardinality(InFlight) = concurrency
  /\ queue # <<>>

\* C2: when a triple is requested a second time after the first request has
\* returned, the second request returns at once the value the first one
\* returned and cached, and the remote call was invoked at most once for the
\* triple.
C2_SecondRequestServedFromCache ==
  [][\A c \in Calls :
       (pc[c] = "idle" /\ pc'[c] # "idle") =>
         \A d \in Calls :
           ( /\ pc[d] = "returned"
             /\ keyOf(d) = key(req'[c].text, req'[c].fromLang, req'[c].toLang)
             /\ {e \in Calls : Started(e) /\ keyOf(e) = keyOf(d)} = {d} )
           => /\ pc'[c] = "returned"
              /\ result'[c] = result[d]
              /\ Cardinality({e \in Calls : /\ e \in Invoked' \/ e \in Invoked
                                            /\ keyOf(e) = keyOf(d)}) <= 1]_vars

\* C3: a response that lacks a placeholder of the source text makes the call
\* return the source text, leaves the source text under the cache key, and
\* raises no error.
C3_LostPlaceholderFallsBack ==
  [][\A c \in Calls :
       (outcome[c] = "none" /\ AnswerLostPlaceholder(c)') =>
         /\ pc'[c] = "returned"
         /\ result'[c] = {req[c].text}
         /\ keyOf(c) \in DOMAIN cache'
         /\ cache'[keyOf(c)] = req[c].text]_vars

\* a response that is not the source text lost a placeholder
C3_Witness ==
  \E c \in Calls :
    /\ AnswerLostPlaceholder(c)
    /\ answer[c] # {req[c].text}
    /\ answer[c] # {null}
    /\ pc[c] = "returned"

\* C4: a call that acquired a token releases it exactly once when it ends,
\* however it ends; when no call is in progress the outstanding count is 0
\* and the wait queue is empty.
C4_TokenReleasedOnce ==
  /\ \A c \in Calls :
       /\ released[c] <= tokens[c]
       /\ tokens[c] <= 1
       /\ c \in Holders => (tokens[c] = 1 /\ released[c] = 0)
       /\ Ended(c) => released[c] = tokens[c]
       /\ (outcome[c] # "none") => released[c] = 1
  /\ (\A c \in Calls : pc[c] = "idle" \/ Ended(c)) =>
       (running = 0 /\ queue = <<>>)

\* every call has ended, one by a failure, one by the fallback, one after
\* waiting in the queue
C4_Witness ==
  /\ \A c \in Calls : Ended(c)
  /\ \E c \in Calls : pc[c] = "threw"
  /\ \E c \in Calls : AnswerLostPlaceholder(c)
  /\ granted # <<>>
  /\ running = 0

\* C5: suspended calls are granted tokens in the order in which they were
\* enqueued, and a call that arrives while a waiter is queued does not get a
\* token ahead of it.
C5_Fifo ==
  [][ /\ IsPrefix(granted', enqueued')
      /\ \A c \in Calls :
           (pc[c] = "idle" /\ pc'[c] = "acquired") => queue = <<>> ]_vars

\* two waiters were granted a token one after the other
C5_Witness == Len(granted) >= 2

C7_CachedKeyTakesNoToken ==
  [][\A c \in Calls :
       ( /\ pc[c] = "idle"
         /\ pc'[c] # "idle"
         /\ key(req'[c].text, req'[c].fromLang, req'[c].toLang)
              \in DOMAIN cache )
       => /\ pc'[c] = "returned"
          /\ result'[c] =
               {cache[key(req'[c].text, req'[c].fromLang, req'[c].toLang)]}
          /\ running' = running
          /\ queue' = queue
          /\ tokens' = tokens]_vars

\* C20: if every remote call that was started completes, every call that is
\* suspended in the wait queue gets a token and starts its remote call, and
\* no call waits while no call holds a token.
C20_WaitersProceed ==
  /\ \A c \in Calls : (pc[c] = "queued") ~> (pc[c] = "remote")
  /\ [](queue # <<>> => Holders # {})

\* the call that waited last runs its remote call after every other call
\* has ended
C20_Witness ==
  \E c \in Calls :
    /\ pc[c] = "remote"
    /\ \E i \in 1..Len(granted) : granted[i] = c
    /\ \A d \in Calls \ {c} : Ended(d)

\* ------------------------------------------------------------------------
\* Properties of the tree utilities
\* ------------------------------------------------------------------------

\* the shape of a flattened value: string, null or array
Shape(v) == v.kind

\* the paths of both trees whose values differ in shape
ShapeDiffers(base, target) ==
  {p \in Paths(base) \cap Paths(target) :
     Shape(mapGet(flatten(base), p)) # Shape(mapGet(flatten(target), p))}

PropKeys(node) == {node.kids[i].key : i \in 1..Len(node.kids)}

\* equality of two values up to the order of the properties
RECURSIVE TreeEq(_, _)
TreeEq(a, b) ==
  /\ a.kind = b.kind
  /\ a.val = b.val
  /\ PropKeys(a) = PropKeys(b)
  /\ \A k \in PropKeys(a) : TreeEq(getProp(a, k), getProp(b, k))

\* every key of the value is non-empty and has no "."
RECURSIVE PlainKeys(_)
PlainKeys(node) ==
  \A i \in 1..Len(node.kids) :
    /\ node.kids[i].key # <<>>
    /\ nextDot(node.kids[i].key, 1) = 0
    /\ PlainKeys(node.kids[i].node)

\* no object below the root of the value is empty
RECURSIVE NoEmptyNested(_)
NoEmptyNested(node) ==
  \A i \in 1..Len(node.kids) :
    /\ isPlainObject(node.kids[i].node) => node.kids[i].node.kids # <<>>
    /\ NoEmptyNested(node.kids[i].node)

\* every entry of the flat map has been set
Rebuilt == stage = "rebuild" /\ todo = <<>>

\* C8: missingInTarget is the set of flattened paths of the base that the
\* target lacks, extraInTarget the set of flattened paths of the target
\* that the base lacks, and every path of both with different shapes is in
\* typeMismatches exactly once and in neither of the other two.
C8_DiffIsSetDifference ==
  stage = "diffed" =>
    /\ ToSet(diff.missingInTarget) = Paths(baseObj) \ Paths(langObj)
    /\ ToSet(diff.extraInTarget) = Paths(langObj) \ Paths(baseObj)
    /\ \A p \in ShapeDiffers(baseObj, langObj) :
         /\ Cardinality({i \in 1..Len(diff.typeMismatches) :
                           diff.typeMismatches[i].path = p}) = 1
         /\ p \notin ToSet(diff.missingInTarget)
         /\ p \notin ToSet(diff.extraInTarget)

\* a diff with a missing key and a type mismatch
C8_Witness ==
  /\ stage = "diffed"
  /\ diff.missingInTarget # <<>>
  /\ ShapeDiffers(baseObj, langObj) # {}
  /\ diff.typeMismatches # <<>>

\* C9: the diff of a tree with itself is empty in all three fields.
C9_DiffOfEqualTreesEmpty ==
  (stage = "diffed" /\ baseObj = langObj) => diff = NoDiff

\* a tree with a nested object and two flattened paths was compared with
\* itself
C9_Witness ==
  /\ stage = "diffed"
  /\ baseObj = langObj
  /\ Cardinality(Paths(baseObj)) >= 2
  /\ \E i \in 1..Len(baseObj.kids) : isPlainObject(baseObj.kids[i].node)

\* C10 as stated: setting every entry of flatten(T) in an empty tree gives a
\* tree structurally equal to T, for every tree T.
C10_RoundTripEveryTree == Rebuilt => TreeEq(outTree, baseObj)

\* C10, amended: the same for every tree T that has no empty nested object
\* and whose keys are non-empty and contain no dot.
C10_RoundTripPlainTree ==
  (Rebuilt /\ PlainKeys(baseObj) /\ NoEmptyNested(baseObj)) =>
    TreeEq(outTree, baseObj)

\* a tree with a nested object of two properties was rebuilt
C10_Witness ==
  /\ Rebuilt
  /\ PlainKeys(baseObj)
  /\ NoEmptyNested(baseObj)
  /\ \E i \in 1..Len(baseObj.kids) : Len(baseObj.kids[i].node.kids) >= 2
  /\ TreeEq(outTree, baseObj)

\* C19: two trees with the same flattened paths and the same shape at every
\* path, whatever the values of their leaves, give a diff with no missing
\* key, no extra key and no type mismatch.
C19_ValueDifferencesNotReported ==
  ( /\ stage = "diffed"
    /\ Paths(baseObj) = Paths(langObj)
    /\ ShapeDiffers(baseObj, langObj) = {} )
  => diff = NoDiff

\* two trees with the same paths and shapes and different texts under a
\* nested object were compared
C19_Witness ==
  /\ stage = "diffed"
  /\ Paths(baseObj) = Paths(langObj)
  /\ ShapeDiffers(baseObj, langObj) = {}
  /\ \E p \in Paths(baseObj) :
       /\ nextDot(p, 1) # 0
       /\ mapGet(flatten(baseObj), p).kind = "string"
       /\ mapGet(flatten(baseObj), p) # mapGet(flatten(langObj), p)
  /\ diff = NoDiff

\* ------------------------------------------------------------------------
\* Properties of a run of the sync CLI
\* ------------------------------------------------------------------------

\* this step resolves one discrepancy, or one leaf of a whole-file
\* translation
Resolves == Len(log') = Len(log) + 1

\* the record of the resolution made by this step
Resolution == log'[Len(log')]

\* this step is the writeJSON that ends the file in progress
WritesFile == at \in {"keys", "whole"} /\ at' = "files"

\* the value that flatten gives for the path, undefined when it has none
flatValue(tree, path) ==
  IF path \in Paths(tree) THEN mapGet(flatten(tree), path) ELSE undefined

\* the resolutions made for the file in progress
ResolutionsOf(file, kind) ==
  {i \in 1..Len(log) : log[i].file = file /\ log[i].kind = kind}

\* the last n writeJSON calls made by this step
LastWrites(n) == SubSeq(writes', Len(writes') - n + 1, Len(writes'))

\* with --auto --prefer-remove, the resolution of an extra key leaves the
\* target without the key and the base and the adapter as they were, and
\* the trees that are written then have not got the key
ExtraKeyRemoved(domain) ==
  (opts.auto /\ opts.preferRemove /\ domain) =>
    /\ (Resolves /\ Resolution.kind = "extraKey") =>
         /\ Resolution.action = "remove"
         /\ Resolution.path \notin Paths(langObj')
         /\ baseObj' = baseObj
         /\ UNCHANGED adapterVars
    /\ (WritesFile /\ at = "keys") =>
         \A i \in ResolutionsOf(job.file, "extraKey") :
           /\ log[i].path \notin Paths(LastWrites(2)[2].tree)
           /\ log[i].path \notin Paths(LastWrites(2)[1].tree)
    /\ \A c \in Calls : pc'[c] = "idle"

\* C11 as stated: in automatic mode with preferRemove, every key reported
\* as extraInTarget is removed from the target tree, is not added to the
\* base, and causes no adapter call, whatever the keys of the trees are.
C11_ExtraKeyRemovedAnyKeys == [][ExtraKeyRemoved(TRUE)]_vars

\* C11: in automatic mode with preferRemove, every key reported as
\* extraInTarget for a common file whose property names are non-empty and
\* contain no dot is removed from the target tree, is not added to the
\* base, and causes no adapter call.
C11_ExtraKeyRemoved ==
  [][ExtraKeyRemoved(at = "keys" => PlainKeys(readJSONSync(lang, job.file)))]_vars

C11_Witness ==
  /\ opts.auto /\ opts.preferRemove /\ ~opts.dryRun
  /\ at = "files"
  /\ \E i \in 1..Len(log) :
       /\ log[i].kind = "extraKey" /\ log[i].action = "remove"
       /\ log[i].value = StringLeaf
       /\ \E j \in 1..Len(writes) :
            writes[j].op = "write" /\ writes[j].locale = fr
              /\ writes[j].file = log[i].file
              /\ log[i].path \notin Paths(fs[fr][log[i].file])

\* with --auto and without --prefer-remove, a file missing in the target is
\* resolved by translateWholeFile and the base file stays; the tree that is
\* written to the target then has every path of the flattened base file,
\* with the answer of the adapter at the path of a text and the value of
\* the base at any other
WholeFileCreated(domain) ==
  (opts.auto /\ ~opts.preferRemove /\ domain) =>
    /\ (Resolves /\ Resolution.kind = "missingFile") =>
         /\ Resolution.action = "translate"
         /\ fs' = fs
    /\ (WritesFile /\ at = "whole" /\ job.branch = "missingFile") =>
         LET base == readJSONSync(en, job.file)
             w == LastWrites(1)[1]
         IN  /\ w.op = "write" /\ w.locale = lang /\ w.file = job.file
             /\ ~opts.dryRun => fs'[lang][job.file] = w.tree
             /\ fs'[en][job.file] = fs[en][job.file]
             /\ fs[en][job.file] # Absent
             /\ \A p \in Paths(base) :
                  /\ p \in Paths(w.tree)
                  /\ IF typeOf(flatValue(base, p)) = "string"
                       THEN \E i \in ResolutionsOf(job.file, "leaf") :
                              /\ log[i].path = p
                              /\ log[i].call \in Calls
                              /\ req[log[i].call].text = flatValue(base, p).val
                              /\ typeOf(flatValue(w.tree, p)) = "string"
                              /\ flatValue(w.tree, p).val \in result[log[i].call]
                       ELSE flatValue(w.tree, p) = flatValue(base, p)

\* C12 as stated: in automatic mode without preferRemove a file missing in
\* the target is created by whole-file translation, the written tree holds
\* every flattened path of the base file with the adapter's result at each
\* string leaf, and the base file is not removed, whatever the keys are.
C12_WholeFileCreatedAnyKeys == [][WholeFileCreated(TRUE)]_vars

\* C12: in automatic mode without preferRemove a file of the base that is
\* missing in the target and whose property names are non-empty and contain
\* no dot is created by whole-file translation; the written tree holds
\* every flattened path of the base file, each string leaf holding the
\* adapter's result, and the base file is not removed.
C12_WholeFileCreated ==
  [][WholeFileCreated(at = "whole" => PlainKeys(readJSONSync(en, job.file)))]_vars

C12_Witness ==
  /\ opts.auto /\ ~opts.preferRemove /\ ~opts.dryRun
  /\ at = "files"
  /\ \E i \in 1..Len(log) :
       /\ log[i].kind = "leaf" /\ log[i].call \in Calls
       /\ log[i].file = "g.json"
       /\ fs[en]["g.json"] # Absent
       /\ flatValue(fs[fr]["g.json"], log[i].path) = Str(<<"b">>)
       /\ Cardinality(Paths(fs[fr]["g.json"])) = 2

\* the resolutions of missing or extra files and keys
TwoWay == {"missingFile", "extraFile", "missingKey", "extraKey"}

\* C13: in automatic mode the prompt is never invoked and every missing or
\* extra file or key is resolved by exactly one of the two actions,
\* translate/add without preferRemove and remove with it; a discrepancy is
\* left as it is only in interactive mode after two answers "no".
C13_AutoDecidesWithoutPrompt ==
  /\ [](\A i \in 1..Len(log) :
          /\ opts.auto => log[i].asked = <<>>
          /\ log[i].kind \in TwoWay =>
               /\ log[i].action \in {"translate", "remove", "skip"}
               /\ opts.auto =>
                    log[i].action = IF opts.preferRemove THEN "remove"
                                    ELSE "translate"
               /\ log[i].action = "skip" <=>
                    (~opts.auto /\ log[i].asked = <<FALSE, FALSE>>))
  /\ [][(Resolves /\ Resolution.kind \in TwoWay) =>
          CASE Resolution.action = "skip" ->
                 /\ UNCHANGED <<fs, writes, adapterVars>>
                 /\ Resolution.kind \in {"missingKey", "extraKey"} =>
                      UNCHANGED <<baseObj, langObj>>
            [] Resolution.action = "remove" ->
                 /\ UNCHANGED adapterVars
                 /\ Resolution.kind = "missingFile" =>
                      writes' = Append(writes, written("rm", en, Resolution.file, Absent))
                 /\ Resolution.kind = "extraFile" =>
                      writes' = Append(writes, written("rm", lang, Resolution.file, Absent))
                 /\ Resolution.kind = "missingKey" =>
                      baseObj' = deleteAtPath(baseObj, Resolution.path)
                        /\ langObj' = langObj
                 /\ Resolution.kind = "extraKey" =>
                      langObj' = deleteAtPath(langObj, Resolution.path)
                        /\ baseObj' = baseObj
            [] OTHER ->
                 /\ UNCHANGED <<fs, writes>>
                 /\ Resolution.kind \in {"missingFile", "extraFile"} =>
                      at' = "whole"
                 /\ Resolution.kind = "missingKey" =>
                      baseObj' = baseObj
                        /\ (at' = "awaitKey"
                              \/ langObj' = setAtPath(langObj, Resolution.path,
                                                     Resolution.value))
                 /\ Resolution.kind = "extraKey" =>
                      langObj' = langObj
                        /\ (at' = "awaitKey"
                              \/ baseObj' = setAtPath(baseObj, Resolution.path,
                                                     Resolution.value))]_vars

C13_Witness ==
  /\ opts.auto /\ ~opts.preferRemove
  /\ at = "done"
  /\ \E i, j \in 1..Len(log) :
       /\ log[i].kind = "missingKey" /\ log[i].action = "translate"
       /\ log[j].kind = "extraKey" /\ log[j].action = "translate"
       /\ log[i].asked = <<>> /\ log[j].asked = <<>>

\* the resolution of a type mismatch: with --auto the target gets the value
\* of the base at the path and the base stays as it is; without it the base
\* changes only after the answers no, yes, and gets the value of the target
MismatchResolved(domain) ==
  (Resolves /\ Resolution.kind = "typeMismatch" /\ domain) =>
    LET p == Resolution.path
    IN  /\ opts.auto =>
             /\ Resolution.action = "overwriteTarget"
             /\ p \in Paths(baseObj)
             /\ flatValue(langObj', p) = flatValue(baseObj, p)
             /\ typeOf(flatValue(langObj', p)) = typeOf(flatValue(baseObj, p))
             /\ baseObj' = baseObj
        /\ baseObj' # baseObj =>
             /\ ~opts.auto
             /\ Resolution.asked = <<FALSE, TRUE>>
             /\ flatValue(baseObj', p) = flatValue(langObj, p)
             /\ langObj' = langObj
        /\ Resolution.asked = <<FALSE, TRUE>> <=>
             Resolution.action = "overwriteBase"
        /\ UNCHANGED adapterVars

\* C14 as stated: for every type mismatch, in automatic mode the target
\* tree's value at the path is overwritten with the base tree's value and
\* the base tree is not modified; interactively the base is overwritten
\* only after "no" to keeping the base shape and "yes" to overwriting the
\* base; whatever the keys of the trees are.
C14_MismatchResolvedAnyKeys == [][MismatchResolved(TRUE)]_vars

\* C14: the same for the trees whose property names are non-empty and
\* contain no dot.
C14_MismatchResolved ==
  [][MismatchResolved(PlainKeys(readJSONSync(en, job.file))
                        /\ PlainKeys(readJSONSync(lang, job.file)))]_vars

C14_Witness ==
  /\ opts.auto
  /\ at = "files"
  /\ ~opts.dryRun
  /\ \E i \in 1..Len(log) :
       /\ log[i].kind = "typeMismatch"
       /\ log[i].action = "overwriteTarget"
       /\ log[i].value = StringLeaf
       /\ flatValue(fs[fr][log[i].file], log[i].path) = StringLeaf
       /\ flatValue(fs[en][log[i].file], log[i].path) = StringLeaf

\* this step is the end of main
EndsMain == at = "main" /\ at' = "done"

RunOver == at \in {"done", "exit1"}

\* the cache file is written only by the flush at the end of main, once,
\* with every translateString call of the run ended; never without --cache
FlushedAtEnd ==
  /\ ~opts.cache => flushed = 0
  /\ flushed <= 1
  /\ flushed = 1 =>
       /\ at = "done"
       /\ \A c \in Calls : Started(c) => Ended(c)

\* C16 as stated: in every run with caching enabled the cache is flushed
\* exactly once, after all translate calls of the run have completed; with
\* caching disabled it is never written.
C16_FlushedOnceInEveryRun ==
  /\ FlushedAtEnd
  /\ (RunOver /\ opts.cache) => flushed = 1

\* C16: in every run with caching enabled that ends without the failure of
\* a remote call the cache is flushed exactly once, after all translate
\* calls of the run have completed; a run aborted by a failure never writes
\* it, and with caching disabled it is never written.
C16_FlushedOnceUnlessAborted ==
  /\ FlushedAtEnd
  /\ (at = "done" /\ opts.cache) => flushed = 1
  /\ at = "exit1" => flushed = 0

C16_Witness ==
  /\ opts.cache
  /\ at = "done"
  /\ flushed = 1
  /\ Cardinality({c \in Calls : pc[c] = "returned"}) >= 2

\* a translateString call of the run has thrown
Failed == \E c \in Calls : pc[c] = "threw"

\* C17: when a remote translation call fails during a run, the run aborts
\* with a nonzero exit: the failure reaches main().catch and nothing else
\* runs after it (no remote call, no tree mutation, no file write, no
\* flush); the files written before the failure keep their written
\* contents, and the file in progress at the failure is never written.
C17_FailureAborts ==
  /\ [](Failed =>
          \/ at = "exit1"
          \/ at \in {"awaitWhole", "awaitKey"} /\ pc[job.call] = "threw")
  /\ [](at = "exit1" =>
          /\ Failed
          /\ \A i \in 1..Len(writes) :
               /\ writes[i].file # job.file
               /\ writes[i].committed =>
                    fs[writes[i].locale][writes[i].file] = writes[i].tree)
  /\ [][Failed =>
          /\ UNCHANGED <<fs, flushed, writes, log, treeVars>>
          /\ UNCHANGED <<pc, Invoked>>
          /\ at' = "exit1"]_vars

C17_Witness ==
  /\ at = "exit1"
  /\ ~opts.dryRun
  /\ job.file = "g.json"
  /\ job.branch = "extraKey"
  /\ fs[fr]["f.json"] # Absent
  /\ \E i \in 1..Len(writes) : writes[i].file = "f.json" /\ writes[i].committed
  /\ langObj # fs[fr]["g.json"]
  /\ fs[fr]["g.json"] # Absent

\* this step takes a translate branch for a key or for a leaf of a file
Translates ==
  /\ Resolves
  /\ Resolution.kind \in {"missingKey", "extraKey", "leaf"}
  /\ Resolution.action \in {"translate", "copy"}

\* the file that the translate branch of this step reads from, as it was
\* read, and the leaf that it has at the path of the resolution
SourceFile ==
  IF Resolution.kind = "missingKey" THEN readJSONSync(en, job.file)
  ELSE IF Resolution.kind = "extraKey" THEN readJSONSync(lang, job.file)
  ELSE readJSONSync(job.from, job.file)

ReportedLeaf == flatValue(SourceFile, Resolution.path)

\* the tree that the translate branch of this step writes into, before and
\* after the step
Destination ==
  IF Resolution.kind = "missingKey" THEN langObj
  ELSE IF Resolution.kind = "extraKey" THEN baseObj
  ELSE outTree

DestinationAfter ==
  IF Resolution.kind = "missingKey" THEN langObj'
  ELSE IF Resolution.kind = "extraKey" THEN baseObj'
  ELSE outTree'

\* the calls of translateString that this step makes
CallsMade == {c \in Calls : pc[c] = "idle" /\ pc'[c] # "idle"}

\* no path of one tree continues a path of the other
NoPathBelowLeaf(a, b) ==
  \A p \in Paths(a), q \in Paths(b) :
    ~IsPrefix(p \o <<".">>, q) /\ ~IsPrefix(q \o <<".">>, p)

Suspended == {c \in Calls : pc[c] = "queued"}

\* C26: in every reachable state of the adapter the outstanding counter
\* equals the number of calls that hold a token and lies between 0 and the
\* limit; the suspended calls are the ones in the wait queue, and whenever
\* there is one, exactly as many tokens as the limit are held.
C26_CounterIsTokensHeld ==
  /\ running = Cardinality(Holders)
  /\ 0 <= running /\ running <= concurrency
  /\ Suspended = ToSet(queue)
  /\ Len(queue) = Cardinality(Suspended)
  /\ queue # <<>> => Cardinality(Holders) = concurrency

C26_Witness ==
  /\ concurrency = 2
  /\ queue # <<>>
  /\ Cardinality(Holders) = 2
  /\ running = 2
  /\ InFlight # {}

\* ------------------------------------------------------------------------
\* Further properties of a run of the sync CLI
\* ------------------------------------------------------------------------

\* the calls that have started and not ended
Pending == {c \in Calls : Started(c) /\ ~Ended(c)}

\* C25: in a run of the CLI, which awaits each translateString call before
\* it issues the next, at most one call is pending and at most one remote
\* call is in flight at any time, and the wait queue of the adapter is
\* always empty, whatever the limit is.
C25_OneCallAtATime ==
  /\ Cardinality(Pending) <= 1
  /\ Cardinality(InFlight) <= 1
  /\ running <= 1
  /\ queue = <<>>
  /\ enqueued = <<>>

C25_Witness ==
  /\ concurrency = 1
  /\ InFlight # {}
  /\ \E c \in Calls : pc[c] = "returned" /\ outcome[c] = "ok"

\* this step ends the iteration of the loop over commonFiles
FinishesCommon == Len(work'.common) < Len(work.common)

\* this step writes the base and then the target tree of the common file
WritesBoth(file) ==
  /\ Len(writes') = Len(writes) + 2
  /\ LastWrites(2) = <<written("write", en, file, baseObj),
                       written("write", lang, file, langObj)>>
  /\ ~opts.dryRun =>
       /\ fs'[en][file] = stringify(sortDeepKeys(baseObj))
       /\ fs'[lang][file] = stringify(sortDeepKeys(langObj))

\* no write of a common file while a discrepancy of it is unresolved, and
\* no resolution of a key of a file after a write of the file
WritesAfterResolutions ==
  /\ (at = "keys" /\ diff # NoDiff) => (writes' = writes /\ fs' = fs)
  /\ (at = "keys" /\ writes' # writes) => (diff = NoDiff /\ log' = log)
  /\ (Resolves /\ Resolution.kind \in {"missingKey", "extraKey", "typeMismatch"}) =>
       \A i \in 1..Len(writes') : writes'[i].file # Resolution.file

\* C23 as stated: for every file present in both locales the base and the
\* target tree are written, each write after every discrepancy of the file
\* is resolved, and no write of the file between two of its resolutions.
C23_EveryCommonFileWritten ==
  [][/\ FinishesCommon => WritesBoth(Head(work.common))
     /\ WritesAfterResolutions]_vars

\* C23: for every file present in both locales whose diff is not empty the
\* base and the target tree are written at the end of its iteration, each
\* write after every discrepancy of the file is resolved and none between
\* two of its resolutions; a file whose diff is empty is not written.
C23_CommonFileWrittenAfterResolutions ==
  [][/\ FinishesCommon =>
          LET file == Head(work.common)
          IN  IF diffKeys(readJSONSync(en, file), readJSONSync(lang, file)) = NoDiff
                THEN writes' = writes /\ fs' = fs /\ log' = log
                ELSE WritesBoth(file) /\ at = "keys" /\ diff = NoDiff
     /\ WritesAfterResolutions]_vars

C23_Witness ==
  /\ at = "files"
  /\ work.common = <<>>
  /\ ~opts.dryRun
  /\ Len(writes) = 2
  /\ writes[1].file = "g.json" /\ writes[1].locale = en
  /\ writes[2].file = "g.json" /\ writes[2].locale = fr
  /\ fs[en]["g.json"] = writes[1].tree
  /\ fs[fr]["g.json"] = writes[2].tree
  /\ Cardinality({i \in 1..Len(log) : log[i].file = "g.json"}) = 2

\* the paths of the resolutions of `kind` made for the file in progress, in
\* the order in which they were made
ResolvedPaths(kind) ==
  LET made == SelectSeq(log, LAMBDA e : e.file = job.file /\ e.kind = kind)
  IN  [i \in 1..Len(made) |-> made[i].path]

\* the keys of `list` that no iteration of the loop has taken yet
NotYetTaken(list, kind) ==
  IF at = "awaitKey" /\ job.branch = kind THEN Tail(diff[list])
  ELSE diff[list]

\* every property of the root is a leaf
IsFlat(tree) == \A i \in 1..Len(tree.kids) : ~isPlainObject(tree.kids[i].node)

\* the property names of the root, the last one first
KeysLastFirst(tree) ==
  [i \in 1..Len(tree.kids) |-> tree.kids[Len(tree.kids) + 1 - i].key]

\* the paths of `tree` that `other` has not, in the order of `order`
Lacking(order, other) == SelectSeq(order, LAMBDA p : p \notin Paths(other))

\* C22 as stated: within one common file the missingInTarget keys, and
\* likewise the extraInTarget keys, are resolved in the lexical order of
\* their paths.
C22_ResolvedInLexicalOrder ==
  \A i, j \in 1..Len(log) :
    (/\ i < j
     /\ log[i].file = log[j].file
     /\ log[i].kind = log[j].kind
     /\ log[i].kind \in {"missingKey", "extraKey"}) =>
      localeBefore(log[i].path, log[j].path)

\* C22: within one common file the missingInTarget keys, and likewise the
\* extraInTarget keys, are resolved in the order in which diffKeys lists
\* them, the insertion order of the flat map of the base (of the target):
\* for a tree whose properties are all leaves that is the order of the
\* properties in the file reversed.
C22_ResolvedInFlattenOrder ==
  at \in {"keys", "awaitKey"} =>
    LET base == readJSONSync(en, job.file)
        target == readJSONSync(lang, job.file)
        d == diffKeys(base, target)
    IN  /\ ResolvedPaths("missingKey")
             \o NotYetTaken("missingInTarget", "missingKey") = d.missingInTarget
        /\ ResolvedPaths("extraKey")
             \o NotYetTaken("extraInTarget", "extraKey") = d.extraInTarget
        /\ IsFlat(base) =>
             d.missingInTarget = Lacking(KeysLastFirst(base), target)
        /\ IsFlat(target) =>
             d.extraInTarget = Lacking(KeysLastFirst(target), base)

C22_Witness ==
  /\ at = "keys"
  /\ fs[en]["g.json"].kind = "object"
  /\ Len(fs[en]["g.json"].kids) = 2
  /\ fs[en]["g.json"].kids[1].key = <<"a">>
  /\ fs[en]["g.json"].kids[2].key = <<"b">>
  /\ ResolvedPaths("missingKey") = << <<"b">>, <<"a">> >>

\* the value with every text replaced by the empty text: the keys, their
\* order and the kinds of the values
RECURSIVE Skeleton(_)
Skeleton(node) ==
  [kind |-> node.kind,
   val |-> IF node.kind = "string" THEN <<>> ELSE node.val,
   kids |-> [i \in 1..Len(node.kids) |->
               [key |-> node.kids[i].key,
                node |-> Skeleton(node.kids[i].node)]]]

\* this step is the return of translateWholeFile
ReturnsWholeFile == at = "whole" /\ todo = <<>> /\ at' = "files"

\* the tree that translateWholeFile returns has the paths of its source,
\* the leaves of the source that are not texts, and at the path of every
\* text the answer of the translateString call made for it
SameShape(source, out) ==
  /\ Paths(out) = Paths(source)
  /\ \A p \in Paths(source) :
       LET v == flatValue(source, p)
       IN  IF typeOf(v) = "string"
             THEN \E i \in ResolutionsOf(job.file, "leaf") :
                    /\ log[i].path = p
                    /\ log[i].value = v
                    /\ log[i].call \in Calls
                    /\ req[log[i].call] = [text |-> v.val, fromLang |-> job.from,
                                           toLang |-> job.to]
                    /\ flatValue(out, p).kind = "string"
                    /\ flatValue(out, p).val \in result[log[i].call]
             ELSE flatValue(out, p) = v

\* C24 as stated: for every source tree translateWholeFile returns a tree
\* with exactly the key paths of the source, every non-string leaf equal to
\* the source leaf and every string leaf holding the adapter's result for
\* the source string at that path.
C24_WholeFileSameShapeAnyKeys ==
  [][ReturnsWholeFile =>
       SameShape(readJSONSync(job.from, job.file), outTree)]_vars

\* C24: the same for every source tree whose property names are non-empty
\* and contain no dot; the returned tree then has the keys of the source in
\* the same order, its empty objects included.
C24_WholeFileSameShape ==
  [][(ReturnsWholeFile /\ PlainKeys(readJSONSync(job.from, job.file))) =>
       /\ SameShape(readJSONSync(job.from, job.file), outTree)
       /\ Skeleton(outTree) = Skeleton(readJSONSync(job.from, job.file))]_vars

C24_Witness ==
  /\ at = "whole"
  /\ todo = <<>>
  /\ job.branch = "extraFile"
  /\ outTree = Obj(<<[key |-> <<"a">>,
                      node |-> Obj(<<[key |-> <<"b">>, node |-> Str(<<"b">>)]>>)]>>)
  /\ fs[fr]["g.json"] = Nested

\* the tree that a later run reads from the file that writeJSON wrote
Reread(obj) == stringify(sortDeepKeys(obj))

\* this step writes the two trees of a common file at the end of a pass
\* with --auto, the property names of both files being non-empty and
\* without a dot
WritesAfterAutoPass ==
  /\ opts.auto
  /\ at = "keys" /\ at' = "files"
  /\ PlainKeys(readJSONSync(en, job.file))
  /\ PlainKeys(readJSONSync(lang, job.file))

\* C21: after one pass with --auto, for either value of preferRemove, in
\* which every translation call succeeded, the base and the target tree
\* that are written for a common file have an empty diff, so that a second
\* run resolves nothing; stated for the files whose property names are
\* non-empty and contain no dot.
C21_SecondRunFindsNoDiff ==
  [][WritesAfterAutoPass =>
       diffKeys(Reread(baseObj), Reread(langObj)) = NoDiff]_vars

\* C27: every value that translateString(text, from, to) returns, freshly
\* translated, a fallback or served from the cache (the entries loaded from
\* the cache file at construction included), contains every placeholder
\* token of text.
C27_ReturnedKeepsPlaceholders ==
  \A c \in Calls :
    pc[c] = "returned" =>
      \A v \in result[c], ph \in Substrings(req[c].text) :
        IsPlaceholderOf(ph, req[c].text) => includes(v, ph)

====
